---- MODULE Spec2Model ----
(***************************************************************************)
(* State machine of the chat component of frontend/src/App.jsx.            *)
(*                                                                         *)
(* The component runs on the single-threaded browser event loop: every     *)
(* event handler and every continuation after an `await` runs to           *)
(* completion, and the component is re-rendered before the next user event *)
(* is dispatched, so each handler reads the current values of the React    *)
(* state.  One action models one such run-to-completion step.              *)
(*                                                                         *)
(* JavaScript strings are sequences of one-character strings; JavaScript   *)
(* values are records [t, v] so that null, undefined and "" stay distinct. *)
(***************************************************************************)
EXTENDS Integers, Sequences, FiniteSets, TLC

VARIABLES
  messages,      \* useState([]): the turns, in append order
  input,         \* useState(""): the draft
  isThinking,    \* useState(false)
  imageBase64,   \* useState(null): the encoded payload of the attachment
  imagePreview,  \* useState(null): the blob URL of the attachment
  reading,       \* file reads started and not yet finished
  inflight,      \* HTTP requests issued and not yet settled
  nextRead,      \* number of the next file read
  nextReq,       \* number of the next HTTP request
  event          \* the handler that ran last, and its argument

vars == <<messages, input, isThinking, imageBase64, imagePreview,
          reading, inflight, nextRead, nextReq, event>>

(* ---------------- bounds of the model ---------------- *)

\* number of asynchronous operations (file reads and HTTP requests) started
\* in one behaviour
MaxAsync == 3

(* ---------------- JavaScript values ---------------- *)

NULL == [t |-> "null", v |-> <<>>]
UNDEFINED == [t |-> "undefined", v |-> <<>>]
Str(s) == [t |-> "string", v |-> s]

\* JavaScript truthiness of null, undefined and strings
Truthy(x) == x.t = "string" /\ x.v # <<>>

\* the JavaScript operator a || b
Or(a, b) == IF Truthy(a) THEN a ELSE b

IsWhitespace(c) == c = " "

RECURSIVE TrimStart(_)
TrimStart(s) ==
  IF s = <<>> THEN <<>>
  ELSE IF IsWhitespace(Head(s)) THEN TrimStart(Tail(s)) ELSE s

RECURSIVE TrimEnd(_)
TrimEnd(s) ==
  IF s = <<>> THEN <<>>
  ELSE IF IsWhitespace(s[Len(s)]) THEN TrimEnd(SubSeq(s, 1, Len(s) - 1)) ELSE s

\* String.prototype.trim
Trim(s) == TrimEnd(TrimStart(s))

\* String.prototype.startsWith
StartsWith(s, p) == Len(s) >= Len(p) /\ SubSeq(s, 1, Len(p)) = p

\* String.prototype.split with a one-character separator: the sequence of parts
RECURSIVE Split(_, _)
Split(s, sep) ==
  IF \A i \in 1..Len(s) : s[i] # sep THEN <<s>>
  ELSE LET k == CHOOSE i \in 1..Len(s) :
                  s[i] = sep /\ \A j \in 1..(i - 1) : s[j] # sep
       IN <<SubSeq(s, 1, k - 1)>> \o Split(SubSeq(s, k + 1, Len(s)), sep)

\* parts[n] with JavaScript's 0-based index, undefined past the end
At(parts, n) == IF n + 1 <= Len(parts) THEN Str(parts[n + 1]) ELSE UNDEFINED

(* ---------------- inputs of the model ---------------- *)

\* the values the text field takes: empty, whitespace only, and text with
\* leading whitespace
Drafts ==
  {Str(<<>>), Str(<<" ">>), Str(<<" ", "a">>)}

ImagePng == <<"i", "m", "a", "g", "e", "/", "p", "n", "g">>
ImageJpeg == <<"i", "m", "a", "g", "e", "/", "j", "p", "e", "g">>
TextPlain == <<"t", "e", "x", "t", "/", "p", "l", "a", "i", "n">>

\* a File: its name, its media type and the base64 text the FileReader
\* produces for its bytes (empty for a zero-byte file)
PhotoA == [name |-> "a.png", type |-> ImagePng, data |-> <<"Q", "U", "=", "=">>]
PhotoB == [name |-> "b.jpg", type |-> ImageJpeg, data |-> <<"Q", "g", "=", "=">>]
EmptyPng == [name |-> "empty.png", type |-> ImagePng, data |-> <<>>]
Notes == [name |-> "notes.txt", type |-> TextPlain, data |-> <<"e", "A", "=", "=">>]

\* e.target.files?.[0] when the chooser is dismissed, item.getAsFile() of a
\* string item
NoFile == [name |-> "", type |-> <<>>, data |-> <<>>]

\* the files the user picks in the chooser
Files == {EmptyPng, Notes}

\* a DataTransferItem: its type and the file getAsFile() returns
Item(f) == [type |-> f.type, file |-> f]
TextItem == [type |-> TextPlain, file |-> NoFile]

\* the clipboards the user pastes
Clipboards ==
  { <<>>, <<TextItem>>, <<TextItem, Item(PhotoA), Item(PhotoB)>> }

\* what the backend call can deliver: fetch rejects, or it resolves with a
\* status and a body; a body is a JSON object (with or without an answer
\* field), the JSON value null, or text that is not JSON
AnswerX == Str(<<"X">>)
Body(kind, answer) == [kind |-> kind, answer |-> answer]
Response(rejected, status, body) ==
  [rejected |-> rejected, status |-> status, body |-> body]
Responses ==
  { Response(TRUE, 0, Body("malformed", UNDEFINED)),
    Response(FALSE, 200, Body("object", AnswerX)),
    Response(FALSE, 200, Body("malformed", UNDEFINED)),
    Response(FALSE, 200, Body("null", UNDEFINED)),
    Response(FALSE, 500, Body("object", UNDEFINED)),
    Response(FALSE, 500, Body("object", AnswerX)) }

(* ---------------- fileToBase64 and the browser calls it makes ---------------- *)

\* FileReader.readAsDataURL: "data:<type>;base64,<data>"
ReadAsDataURL(file) ==
  <<"d", "a", "t", "a", ":">> \o file.type
    \o <<";", "b", "a", "s", "e", "6", "4", ",">> \o file.data

\* reader.result.split(",")[0]
fileToBase64_Prefix(file) == At(Split(ReadAsDataURL(file), ","), 0)

\* reader.result.split(",")[1]
fileToBase64(file) == At(Split(ReadAsDataURL(file), ","), 1)

\* URL.createObjectURL: a fresh blob URL for every call.  The URL made after
\* file read number id is written "blob:<file name>#<id>", which names the
\* file it resolves to
createObjectURL(file, id) ==
  Str(<<"b", "l", "o", "b", ":", file.name, "#", ToString(id)>>)

ImagePrefix == <<"i", "m", "a", "g", "e", "/">>

\* a type test that lets every typed file through
IsImageType_Any(type) == Len(type) > 0

\* i.type.startsWith("image/"), file.type.startsWith("image/")
IsImageType(type) == StartsWith(type, ImagePrefix)

NoItem == [type |-> <<>>, file |-> NoFile]

\* [...e.clipboardData.items].find(i => i.type.startsWith("image/"))
FindImageItem(items) ==
  IF \E i \in 1..Len(items) : IsImageType(items[i].type)
  THEN items[CHOOSE i \in 1..Len(items) :
               /\ IsImageType(items[i].type)
               /\ \A j \in 1..(i - 1) : ~IsImageType(items[j].type)]
  ELSE NoItem

\* file && file.type.startsWith("image/")
IsImageFile(file) == file # NoFile /\ IsImageType(file.type)

(* ---------------- sendMessage, synchronous part ---------------- *)

\* the early return without the trim: !input && !imageBase64
Accepts_NoTrim(inp, b64) == ~(~Truthy(inp) /\ ~Truthy(b64))

\* negation of the early return: !input.trim() && !imageBase64
Accepts(inp, b64) == ~(~Truthy(Str(Trim(inp.v))) /\ ~Truthy(b64))

\* { role: "user", text: input || "", image: imagePreview }
UserTurn(inp, preview) ==
  [role |-> "user", text |-> Or(inp, Str(<<>>)), image |-> preview]

\* the payload with the trimmed draft: text: input.trim() || null
Payload_Trimmed(inp, b64) ==
  [text |-> Or(Str(Trim(inp.v)), NULL), image_base64 |-> Or(b64, NULL),
   session_id |-> "sap-session-1"]

\* { text: input || null, image_base64: imageBase64 || null, session_id }
Payload(inp, b64) ==
  [text |-> Or(inp, NULL), image_base64 |-> Or(b64, NULL),
   session_id |-> "sap-session-1"]

(* ---------------- sendMessage, after the awaits ---------------- *)

ErrorText == Str(<<"Error contacting backend.">>)

\* a try block that throws only when fetch rejects
Throws_OnlyFetch(resp) == resp.rejected

\* the try block throws: fetch rejects, res.json() rejects on a body that
\* is not JSON, or data.answer is read from null
Throws(resp) ==
  \/ resp.rejected
  \/ resp.body.kind = "malformed"
  \/ resp.body.kind = "null"

\* the try block reading a field the response does not have
AssistantTurn_WrongField(resp) ==
  IF Throws(resp)
  THEN [role |-> "assistant", text |-> ErrorText, image |-> NULL]
  ELSE [role |-> "assistant", text |-> UNDEFINED, image |-> NULL]

\* the assistant turn appended by the try block or by the catch block
AssistantTurn(resp) ==
  IF Throws(resp)
  THEN [role |-> "assistant", text |-> ErrorText, image |-> NULL]
  ELSE [role |-> "assistant", text |-> resp.body.answer, image |-> NULL]

(* ---------------- state ---------------- *)

Init ==
  /\ messages = <<>>
  /\ input = Str(<<>>)
  /\ isThinking = FALSE
  /\ imageBase64 = NULL
  /\ imagePreview = NULL
  /\ reading = {}
  /\ inflight = {}
  /\ nextRead = 1
  /\ nextReq = 1
  /\ event = [op |-> "mount", arg |-> <<>>]

\* file reads and HTTP requests started so far
Started == (nextRead - 1) + (nextReq - 1)

(* ---------------- actions ---------------- *)

\* onChange of the text field: setInput(e.target.value)
setInput(value) ==
  /\ input' = value
  /\ event' = [op |-> "setInput", arg |-> <<>>]
  /\ UNCHANGED <<messages, isThinking, imageBase64, imagePreview,
                 reading, inflight, nextRead, nextReq>>

\* the file read that handlePaste and handleFile start before their await;
\* sent records how many submits had been accepted when the read started
startRead(file) ==
  /\ Started < MaxAsync
  /\ reading' = reading \cup
       {[id |-> nextRead, file |-> file, sent |-> nextReq - 1]}
  /\ nextRead' = nextRead + 1

\* the window's paste listener, up to its await
handlePaste(items) ==
  /\ LET item == FindImageItem(items)
     IN IF item # NoItem
        THEN startRead(item.file)
        ELSE UNCHANGED <<reading, nextRead>>
  /\ event' = [op |-> "handlePaste", arg |-> items]
  /\ UNCHANGED <<messages, input, isThinking, imageBase64, imagePreview,
                 inflight, nextReq>>

\* onChange of the file chooser, up to its await
handleFile(file) ==
  /\ IF IsImageFile(file)
     THEN startRead(file)
     ELSE UNCHANGED <<reading, nextRead>>
  /\ event' = [op |-> "handleFile", arg |-> file]
  /\ UNCHANGED <<messages, input, isThinking, imageBase64, imagePreview,
                 inflight, nextReq>>

\* a completed read that also puts its image on the turn sent last
readLoaded_PatchesTurn(r) ==
  /\ r \in reading
  /\ reading' = reading \ {r}
  /\ imageBase64' = fileToBase64(r.file)
  /\ imagePreview' = createObjectURL(r.file, r.id)
  /\ messages' = IF messages = <<>> THEN messages
                 ELSE [messages EXCEPT
                         ![Len(messages)].image = createObjectURL(r.file, r.id)]
  /\ event' = [op |-> "readLoaded", arg |-> imagePreview, read |-> r]
  /\ UNCHANGED <<input, isThinking, inflight, nextRead, nextReq>>

\* reader.onload and the rest of handlePaste / handleFile after the await;
\* event records the preview the new one replaces, and the read
readLoaded(r) ==
  /\ r \in reading
  /\ reading' = reading \ {r}
  /\ imageBase64' = fileToBase64(r.file)
  /\ imagePreview' = createObjectURL(r.file, r.id)
  /\ event' = [op |-> "readLoaded", arg |-> imagePreview, read |-> r]
  /\ UNCHANGED <<messages, input, isThinking, inflight, nextRead, nextReq>>

\* reader.onerror: the promise rejects and the handler ends at its await
readFailed(r) ==
  /\ r \in reading
  /\ reading' = reading \ {r}
  /\ event' = [op |-> "readFailed", arg |-> <<>>]
  /\ UNCHANGED <<messages, input, isThinking, imageBase64, imagePreview,
                 inflight, nextRead, nextReq>>

\* the remove button without its setImagePreview(null)
removeImage_PayloadOnly ==
  /\ Truthy(imagePreview)
  /\ imageBase64' = NULL
  /\ event' = [op |-> "removeImage", arg |-> <<>>]
  /\ UNCHANGED <<messages, input, isThinking, imagePreview, reading, inflight,
                 nextRead, nextReq>>

\* the remove button, rendered only while imagePreview is truthy
removeImage ==
  /\ Truthy(imagePreview)
  /\ imageBase64' = NULL
  /\ imagePreview' = NULL
  /\ event' = [op |-> "removeImage", arg |-> <<>>]
  /\ UNCHANGED <<messages, input, isThinking, reading, inflight,
                 nextRead, nextReq>>

\* sendMessage that returns while a request is outstanding
sendMessage_Locked ==
  /\ event' = [op |-> "sendMessage", arg |-> <<>>]
  /\ IF ~Accepts(input, imageBase64) \/ isThinking
     THEN UNCHANGED <<messages, input, isThinking, imageBase64,
                      imagePreview, inflight, nextReq>>
     ELSE /\ Started < MaxAsync
          /\ messages' = Append(messages, UserTurn(input, imagePreview))
          /\ inflight' = inflight \cup
               {[id |-> nextReq, payload |-> Payload(input, imageBase64)]}
          /\ nextReq' = nextReq + 1
          /\ input' = Str(<<>>)
          /\ imageBase64' = NULL
          /\ imagePreview' = NULL
          /\ isThinking' = TRUE
  /\ UNCHANGED <<reading, nextRead>>

\* sendMessage without its setImagePreview(null)
sendMessage_KeepsPreview ==
  /\ event' = [op |-> "sendMessage", arg |-> <<>>]
  /\ IF ~Accepts(input, imageBase64)
     THEN UNCHANGED <<messages, input, isThinking, imageBase64,
                      imagePreview, inflight, nextReq>>
     ELSE /\ Started < MaxAsync
          /\ messages' = Append(messages, UserTurn(input, imagePreview))
          /\ inflight' = inflight \cup
               {[id |-> nextReq, payload |-> Payload(input, imageBase64)]}
          /\ nextReq' = nextReq + 1
          /\ input' = Str(<<>>)
          /\ imageBase64' = NULL
          /\ isThinking' = TRUE
          /\ UNCHANGED imagePreview
  /\ UNCHANGED <<reading, nextRead>>

\* Enter in the text field or the send button: sendMessage up to the fetch
sendMessage ==
  /\ event' = [op |-> "sendMessage", arg |-> <<>>]
  /\ IF ~Accepts(input, imageBase64)
     THEN UNCHANGED <<messages, input, isThinking, imageBase64,
                      imagePreview, inflight, nextReq>>
     ELSE /\ Started < MaxAsync
          /\ messages' = Append(messages, UserTurn(input, imagePreview))
          /\ inflight' = inflight \cup
               {[id |-> nextReq, payload |-> Payload(input, imageBase64)]}
          /\ nextReq' = nextReq + 1
          /\ input' = Str(<<>>)
          /\ imageBase64' = NULL
          /\ imagePreview' = NULL
          /\ isThinking' = TRUE
  /\ UNCHANGED <<reading, nextRead>>

\* settle with a catch block that only logs the error
settle_DropsError(r, resp) ==
  /\ r \in inflight
  /\ inflight' = inflight \ {r}
  /\ messages' = IF Throws(resp) THEN messages
                 ELSE Append(messages, AssistantTurn(resp))
  /\ isThinking' = FALSE
  /\ event' = [op |-> "settle", arg |-> resp]
  /\ UNCHANGED <<input, imageBase64, imagePreview, reading,
                 nextRead, nextReq>>

\* settle with setMessages([turn]) in place of the functional update
settle_ReplacesTurns(r, resp) ==
  /\ r \in inflight
  /\ inflight' = inflight \ {r}
  /\ messages' = <<AssistantTurn(resp)>>
  /\ isThinking' = FALSE
  /\ event' = [op |-> "settle", arg |-> resp]
  /\ UNCHANGED <<input, imageBase64, imagePreview, reading,
                 nextRead, nextReq>>

\* settle with a finally block that also clears the draft
settle_ClearsDraft(r, resp) ==
  /\ r \in inflight
  /\ inflight' = inflight \ {r}
  /\ messages' = Append(messages, AssistantTurn(resp))
  /\ isThinking' = FALSE
  /\ input' = Str(<<>>)
  /\ event' = [op |-> "settle", arg |-> resp]
  /\ UNCHANGED <<imageBase64, imagePreview, reading, nextRead, nextReq>>

\* the request of one earlier sendMessage settles: the rest of its try,
\* its catch and its finally
settle(r, resp) ==
  /\ r \in inflight
  /\ inflight' = inflight \ {r}
  /\ messages' = Append(messages, AssistantTurn(resp))
  /\ isThinking' = FALSE
  /\ event' = [op |-> "settle", arg |-> resp]
  /\ UNCHANGED <<input, imageBase64, imagePreview, reading,
                 nextRead, nextReq>>

Next ==
  \/ \E value \in Drafts : setInput(value)
  \/ \E items \in Clipboards : handlePaste(items)
  \/ \E file \in Files \cup {NoFile} : handleFile(file)
  \/ \E r \in reading : readLoaded(r)
  \/ \E r \in reading : readFailed(r)
  \/ removeImage
  \/ sendMessage
  \/ \E r \in inflight, resp \in Responses : settle(r, resp)

Spec == Init /\ [][Next]_vars

(* ---------------- properties ---------------- *)

\* no attachment is pending: neither representation is set
NoAttachment == imageBase64 = NULL /\ imagePreview = NULL

\* the step issues exactly one HTTP request, with this text and this image
IssuesOne(text, image) ==
  \E r \in inflight' :
    /\ r \notin inflight
    /\ inflight' = inflight \cup {r}
    /\ r.id = nextReq
    /\ nextReq' = nextReq + 1
    /\ r.payload.text = text
    /\ r.payload.image_base64 = image

LastTurn == messages[Len(messages)]

\* C1: sendMessage with a draft that is empty after trimming and with no
\* attachment pending changes nothing and issues no request, also while
\* another request is in flight.
C1_EmptySubmitIsNoOp ==
  [][ (event'.op = "sendMessage" /\ Trim(input.v) = <<>> /\ NoAttachment)
        => UNCHANGED <<messages, input, imageBase64, imagePreview,
                       isThinking, inflight, nextReq>> ]_vars

\* a whitespace-only draft was submitted while a request was in flight
C1_Witness ==
  /\ event.op = "sendMessage"
  /\ input = Str(<<" ">>)
  /\ NoAttachment
  /\ inflight # {}
  /\ isThinking

\* C2 as stated: sendMessage with a non-empty draft and no attachment appends
\* one user turn with the draft and no image and issues one request with
\* the draft as text and image_base64 null.
C2_AsStated ==
  [][ (event'.op = "sendMessage" /\ input.v # <<>> /\ NoAttachment)
        => /\ messages' =
                Append(messages, [role |-> "user", text |-> input, image |-> NULL])
           /\ IssuesOne(input, NULL) ]_vars

\* C2 amended: the same for a draft that is non-empty after trimming.
C2_TrimmedDraftSubmit ==
  [][ (event'.op = "sendMessage" /\ Trim(input.v) # <<>> /\ NoAttachment)
        => /\ messages' =
                Append(messages, [role |-> "user", text |-> input, image |-> NULL])
           /\ IssuesOne(input, NULL) ]_vars

\* the draft " a" was submitted without an attachment
C2_Witness ==
  /\ event.op = "sendMessage"
  /\ messages # <<>>
  /\ LastTurn = [role |-> "user", text |-> Str(<<" ", "a">>), image |-> NULL]
  /\ \E r \in inflight :
       /\ r.id = nextReq - 1
       /\ r.payload.text = Str(<<" ", "a">>)
       /\ r.payload.image_base64 = NULL

\* C3: sendMessage with a pending attachment and an empty draft appends one
\* user turn with text "" and the attachment's preview, and issues a request
\* with text null and the attachment's encoded payload.
C3_AttachmentOnlySubmit ==
  [][ (event'.op = "sendMessage" /\ input = Str(<<>>) /\ imagePreview # NULL)
        => /\ messages' =
                Append(messages,
                       [role |-> "user", text |-> Str(<<>>), image |-> imagePreview])
           /\ IssuesOne(NULL, imageBase64) ]_vars

\* C4: in the state right after an accepted submit the draft is empty, no
\* attachment is pending, isThinking is true, and the submit's request has
\* not settled yet.
C4_SubmitClearsComposer ==
  [][ (event'.op = "sendMessage" /\ messages' # messages)
        => /\ input' = Str(<<>>)
           /\ NoAttachment'
           /\ isThinking' = TRUE
           /\ \E r \in inflight' : r.id = nextReq /\ r \notin inflight ]_vars

\* a draft and an attachment were submitted together, and the composer is clear
C4_Witness ==
  /\ event.op = "sendMessage"
  /\ messages # <<>>
  /\ LastTurn.role = "user"
  /\ LastTurn.text = Str(<<" ", "a">>)
  /\ LastTurn.image # NULL
  /\ input = Str(<<>>)
  /\ NoAttachment
  /\ isThinking
  /\ \E r \in inflight : r.id = nextReq - 1

\* the step settles exactly one outstanding request
SettlesOne == \E r \in inflight : inflight' = inflight \ {r}

\* the response is a 2xx response whose body is a JSON object with a string
\* answer field
IsSuccess(resp) ==
  /\ ~resp.rejected
  /\ resp.status \in 200..299
  /\ resp.body.kind = "object"
  /\ resp.body.answer.t = "string"

\* C5: when a request settles successfully with answer X, exactly one
\* assistant turn with text X and no image is appended, and isThinking is
\* false afterwards.
C5_SuccessAppendsAnswer ==
  [][ (event'.op = "settle" /\ IsSuccess(event'.arg))
        => /\ messages' =
                Append(messages,
                       [role |-> "assistant", text |-> event'.arg.body.answer,
                        image |-> NULL])
           /\ SettlesOne
           /\ isThinking' = FALSE ]_vars

\* a request has settled with answer X
C5_Witness ==
  /\ event.op = "settle"
  /\ IsSuccess(event.arg)
  /\ LastTurn = [role |-> "assistant", text |-> AnswerX, image |-> NULL]
  /\ ~isThinking

\* the fetch rejects or the body cannot be parsed as JSON
FailsOrThrows(resp) == resp.rejected \/ resp.body.kind = "malformed"

ErrorTurn == [role |-> "assistant", text |-> ErrorText, image |-> NULL]

\* C6: when the fetch rejects or the body is not JSON, exactly one assistant
\* turn with the text "Error contacting backend." and no image is appended,
\* and isThinking is false afterwards.
C6_FailureAppendsError ==
  [][ (event'.op = "settle" /\ FailsOrThrows(event'.arg))
        => /\ messages' = Append(messages, ErrorTurn)
           /\ SettlesOne
           /\ isThinking' = FALSE ]_vars

\* a request has settled with a body that is not JSON
C6_Witness ==
  /\ event.op = "settle"
  /\ ~event.arg.rejected
  /\ event.arg.body.kind = "malformed"
  /\ LastTurn = ErrorTurn
  /\ ~isThinking

\* the request failed: network error, non-2xx status or a body that is not JSON
IsFailure(resp) ==
  \/ resp.rejected
  \/ resp.status \notin 200..299
  \/ resp.body.kind = "malformed"

\* C7: every kind of request failure, a non-2xx status included, is
\* surfaced as the assistant turn "Error contacting backend.".
C7_EveryFailureIsErrorTurn ==
  [][ (event'.op = "settle" /\ IsFailure(event'.arg))
        => messages' = Append(messages, ErrorTurn) ]_vars

\* C8: isThinking is true exactly while some request is outstanding.
C8_ThinkingIffOutstanding == isThinking <=> (inflight # {})

\* the file a blob URL resolves to
PreviewFile(url) ==
  CHOOSE f \in Files \cup {PhotoA, PhotoB} : f.name = url.v[6]

\* both representations of the pending attachment come from one file
SameImage ==
  /\ imagePreview = NULL => imageBase64 = NULL
  /\ imagePreview # NULL => imageBase64 = Str(PreviewFile(imagePreview).data)

\* C9: at most one attachment is pending; an ingestion that completes
\* replaces the pending attachment in both representations, and no state
\* holds the payload of one image with the preview of another.
C9_OneAttachment ==
  /\ []SameImage
  /\ [][ event'.op = "readLoaded"
           => \E r \in reading :
                /\ reading' = reading \ {r}
                /\ imagePreview' # NULL
                /\ imagePreview' # imagePreview
                /\ PreviewFile(imagePreview') = r.file
                /\ imageBase64' = Str(r.file.data) ]_vars

\* a second image was read while another one was pending, and replaced it
C9_Witness ==
  /\ event.op = "readLoaded"
  /\ event.arg # NULL
  /\ imagePreview # event.arg
  /\ PreviewFile(event.arg) = EmptyPng
  /\ PreviewFile(imagePreview) = PhotoA
  /\ imageBase64 = Str(PhotoA.data)

\* the chooser offers no image: no file, or a file of another type
OffersNoImageFile(file) == file = NoFile \/ ~StartsWith(file.type, ImagePrefix)

\* the clipboard offers no image: no item has an image type
OffersNoImageItems(items) ==
  \A i \in 1..Len(items) : ~StartsWith(items[i].type, ImagePrefix)

\* C10: an ingestion event that offers no image leaves the attachment, the
\* draft, the conversation and isThinking unchanged, issues no request and
\* starts no file read.
C10_NonImageIgnored ==
  [][ (\/ event'.op = "handleFile" /\ OffersNoImageFile(event'.arg)
       \/ event'.op = "handlePaste" /\ OffersNoImageItems(event'.arg))
        => UNCHANGED <<messages, input, isThinking, imageBase64, imagePreview,
                       inflight, nextReq, reading, nextRead>> ]_vars

\* a text file was chosen while a draft and an attachment were pending
C10_Witness ==
  /\ event.op = "handleFile"
  /\ event.arg = Notes
  /\ input = Str(<<" ", "a">>)
  /\ Truthy(imageBase64)
  /\ imagePreview # NULL

\* a clipboard holding only text was pasted while an attachment was pending
C10_WitnessPaste ==
  /\ event.op = "handlePaste"
  /\ event.arg = <<TextItem>>
  /\ imagePreview # NULL

\* C11: the remove button clears the encoded payload and the preview in
\* one step and leaves the draft, isThinking and every appended turn
\* unchanged.
C11_RemoveClearsBoth ==
  [][ event'.op = "removeImage"
        => /\ NoAttachment'
           /\ UNCHANGED <<messages, input, isThinking>> ]_vars

\* an attachment was removed after a turn with an image had been sent and
\* while a draft was typed
C11_Witness ==
  /\ event.op = "removeImage"
  /\ NoAttachment
  /\ input = Str(<<" ", "a">>)
  /\ \E i \in 1..Len(messages) :
       messages[i].role = "user" /\ messages[i].image # NULL

\* s is a prefix of t
IsPrefix(s, t) == Len(s) <= Len(t) /\ SubSeq(t, 1, Len(s)) = s

\* C12: the conversation is append-only: every step keeps the turns it
\* found, in their order, and adds at most one.
C12_AppendOnly ==
  [][ IsPrefix(messages, messages') /\ Len(messages') <= Len(messages) + 1 ]_vars

\* a reply was appended behind two earlier turns
C12_Witness ==
  /\ event.op = "settle"
  /\ Len(messages) = 3
  /\ messages[1].role = "user"
  /\ messages[3].role = "assistant"

\* C19: the settling of a request changes only the conversation and
\* isThinking: the draft and the attachment staged meanwhile are unchanged.
C19_SettleKeepsComposer ==
  [][ event'.op = "settle"
        => UNCHANGED <<input, imageBase64, imagePreview, reading>> ]_vars

\* the only request ever sent has settled while a draft and an attachment,
\* both staged after its submit, are pending
C19_Witness ==
  /\ event.op = "settle"
  /\ nextReq = 2
  /\ inflight = {}
  /\ input = Str(<<" ", "a">>)
  /\ Truthy(imageBase64)
  /\ imagePreview # NULL

\* the positions of the turns of one role among the first n turns
TurnsOf(role, n) == {i \in 1..n : messages[i].role = role}

\* the position of the k-th user turn
UserTurnAt(k) ==
  CHOOSE i \in 1..Len(messages) :
    messages[i].role = "user" /\ Cardinality(TurnsOf("user", i)) = k

C15_SubmitNotLocked ==
  /\ [][ (event'.op = "sendMessage" /\ inflight # {} /\ Trim(input.v) # <<>>)
           => /\ Cardinality(inflight') = Cardinality(inflight) + 1
              /\ messages' = Append(messages, UserTurn(input, imagePreview)) ]_vars
  /\ [][ event'.op = "settle"
           => \E r \in inflight :
                /\ inflight' = inflight \ {r}
                /\ \E t \in {messages'[Len(messages')]} :
                     /\ t.role = "assistant"
                     /\ messages' = Append(messages, t) ]_vars

\* two requests were in flight at once and the second was answered first:
\* its reply stands in the conversation while the first is outstanding
C15_Witness ==
  /\ event.op = "settle"
  /\ nextReq = 3
  /\ \E r \in inflight : r.id = 1
  /\ Len(messages) = 3
  /\ messages[1].role = "user"
  /\ messages[2].role = "user"
  /\ messages[3].role = "assistant"

\* two requests are in flight at once
C15_TwoInFlight == Cardinality(inflight) = 2

\* the number of the file read a blob URL was made after
PreviewRead(url) == url.v[8]

\* C16: when two images are ingested one after the other and no submit or
\* removal intervenes, the pending attachment is the later one once both
\* reads have completed, whichever read completes first.
C16_LaterImageWins ==
  [][ (/\ event'.op = "readLoaded"
       /\ nextRead = 3 /\ nextReq = 1
       /\ imagePreview # NULL
       /\ reading' = {})
        => PreviewRead(imagePreview') = ToString(2) ]_vars

\* C17: the encoded payload is present (not null, not empty) exactly when
\* the preview is present, and the user turn of a request carries an image
\* exactly when the request carries image_base64.
C17_BothOrNeither ==
  /\ Truthy(imageBase64) <=> imagePreview # NULL
  /\ \A r \in inflight :
       messages[UserTurnAt(r.id)].image # NULL <=> r.payload.image_base64 # NULL

\* C17, second part alone: a user turn with an image whose request carries
\* no image_base64 does not occur
C17_TurnImageIffPayload ==
  \A r \in inflight :
    messages[UserTurnAt(r.id)].image # NULL <=> r.payload.image_base64 # NULL

\* C18: a submit captures the attachment pending at its instant and no
\* other: its turn and its payload take the two fields as they are, and a
\* file read that completes later, also one started before the submit,
\* changes no turn and no request and becomes the pending attachment.
C18_SubmitCapturesPending ==
  /\ [][ (event'.op = "sendMessage" /\ messages' # messages)
           => /\ messages'[Len(messages')].image = imagePreview
              /\ \E r \in inflight' \ inflight :
                   r.payload.image_base64 = Or(imageBase64, NULL) ]_vars
  /\ [][ event'.op = "readLoaded"
           => /\ UNCHANGED <<messages, inflight, nextReq>>
              /\ PreviewRead(imagePreview') = ToString(event'.read.id)
              /\ PreviewFile(imagePreview') = event'.read.file
              /\ imageBase64' = Str(event'.read.file.data) ]_vars

\* a read started before the only submit completed after it: the turn and
\* the request carry no image, and the image is the pending attachment
C18_Witness ==
  /\ event.op = "readLoaded"
  /\ event.read.sent = 0
  /\ nextReq = 2
  /\ messages[1].role = "user"
  /\ messages[1].image = NULL
  /\ \A r \in inflight : r.payload.image_base64 = NULL
  /\ input = Str(<<>>)
  /\ Truthy(imageBase64)
  /\ imagePreview # NULL

\* a failed request has settled: its error turn is in the conversation
HasFailed == \E i \in 1..Len(messages) : messages[i] = ErrorTurn

\* C13, first part: once a failed request has settled, a sendMessage with
\* a draft (non-empty after trimming) or with a pending attachment is
\* accepted and issues a new request.
C13_UsableAfterFailure ==
  [][ (/\ event'.op = "sendMessage"
       /\ HasFailed
       /\ (Trim(input.v) # <<>> \/ imagePreview # NULL))
        => /\ Len(messages') = Len(messages) + 1
           /\ \E r \in inflight' \ inflight : r.id = nextReq ]_vars

\* every issued request eventually settles
FairSpec ==
  /\ Spec
  /\ \A id \in 1..MaxAsync :
       WF_vars(\E r \in inflight, resp \in Responses :
                 r.id = id /\ settle(r, resp))

\* C13, second part: if every request eventually settles, every accepted
\* submit is eventually answered and isThinking eventually is false.
C13_EverySubmitAnswered ==
  /\ \A id \in 1..MaxAsync :
       (\E r \in inflight : r.id = id)
         ~> (/\ \A r \in inflight : r.id # id
             /\ Cardinality(TurnsOf("assistant", Len(messages))) >= 1)
  /\ isThinking ~> ~isThinking

====
